---- MODULE Spec2Model ----
(***************************************************************************)
(* Model of src/ikoalawala_rumchat_actor_rig.py: the LLMChatBot of the     *)
(* iKoalaWala Rumble chat actor rig.                                       *)
(*                                                                         *)
(* Two threads: the chat library's callback (LLMChatBot.action), which     *)
(* only enqueues, and the message processor thread                         *)
(* (LLMChatBot.message_processing_loop), which dequeues one message at a   *)
(* time and runs moderation, the seen-user check, the greeting and the     *)
(* mention reply through the rate-limited wrapper (_run_rate_limited).     *)
(*                                                                         *)
(* Python behaviour the model keeps, because the code's control flow       *)
(* depends on it:                                                          *)
(*   - str.format with a positional argument does not bind the named       *)
(*     fields of the template: "{message.text}".format(message) raises     *)
(*     KeyError('message') (lines 166 and 170);                            *)
(*   - time.time() is a float, so (t % p) // l is a float, and a list      *)
(*     indexed with a float raises TypeError (lines 239 and 244);          *)
(*   - _run_rate_limited catches openai.RateLimitError only (line 194):    *)
(*     every other exception leaves it, and ends the processor thread;     *)
(*   - "return" inside the while loop (lines 157 and 162) ends the         *)
(*     processor thread's function, not one iteration.                     *)
(***************************************************************************)
EXTENDS Integers, Sequences, FiniteSets, TLC

\* ------------------------------------------------------------ bounds
\* Number of callback invocations (chat messages arriving) in a session.
MaxArrivals == 3
\* Number of direct invocations of is_clean / get_llm_message (SpecWrapper).
MaxInvocations == 3
\* Wall-clock times are drawn from the starts of seasons 0 .. MaxSeasons.
MaxSeasons == 3
\* Number of direct calls of remember_user (SpecStore).
MaxStoreCalls == 5
\* Last wall-clock second at which current_character is read (SpecTimer):
\* two rotation periods of 3 * 600 s.
MaxTime == 3600

\* ------------------------------------------------- program constants
\* Static.LLM.rate_limit_max_tries
rate_limit_max_tries == 4
\* Static.LLM.rate_limit_delay (seconds slept before a retry)
rate_limit_delay == 20
\* Static.LLM.character_season_length
character_season_length == 600
\* Static.LLM.character_prompts
character_prompts == <<"Radshak", "Meshack", "Abednigo">>

\* Usernames of chat users, and the file contents the bot can start with.
Users == {"alice", "bob"}

\* A chat message: who sent it and whether its text starts with "@<bot>".
\* id is the arrival number (history, to tell messages apart).
Messages == [id : 1..MaxArrivals, username : Users, mention : BOOLEAN]

NoMessage == [id |-> 0, username |-> "", mention |-> FALSE]

VARIABLES
  keep_running,          \* actor.keep_running
  permanent_rate_limit,  \* self.permanent_rate_limit
  messages_to_process,   \* self.messages_to_process (queue.Queue), a sequence
  remembered_users,      \* self.remembered_users (list)
  remembered_users_file, \* lines of remembered_users.txt
  pc,                    \* position of the processor thread (or direct caller)
  message,               \* local "message" of message_processing_loop
  kind,                  \* which call the wrapper is running, and for whom
  tries,                 \* iterations of the for loop started (wrapper)
  rate_limited,          \* local "rate_limited" of _run_rate_limited
  result,                \* value returned by the wrapper
  exc,                   \* exception in flight / that ended the thread
  exit,                  \* how the processor thread ended
  sent,                  \* actor.send_message calls, in order
  \* history variables (not program state)
  accepted,              \* messages put on the queue, in order
  discarded,             \* messages the callback dropped, in order
  dequeued,              \* messages taken from the queue, in order
  finished,              \* messages whose processing step has ended
  snap,                  \* store and sent count when message was dequeued
  calls,                 \* remote invocations in this wrapper invocation
  sleeps,                \* sleeps in this wrapper invocation
  rl_count,              \* rate-limit signals in this wrapper invocation
  entry_exhausted,       \* permanent_rate_limit at wrapper entry
  last_outcome,          \* outcome of the last call() of the wrapper
  returned,              \* log of completed wrapper invocations
  invocations,           \* direct invocations made (SpecWrapper, SpecStore)
  dequeued_at_stop,      \* Len(dequeued) when keep_running was cleared
  now,                   \* time.time(), whole seconds (SpecTimer)
  active_index           \* last value of current_character (SpecTimer)

vars == <<keep_running, permanent_rate_limit, messages_to_process,
          remembered_users, remembered_users_file, pc, message, kind, tries,
          rate_limited, result, exc, exit, sent, accepted, discarded,
          dequeued, finished, snap, calls, sleeps, rl_count, entry_exhausted,
          last_outcome, returned, invocations, dequeued_at_stop, now,
          active_index>>

queueVars == <<messages_to_process, accepted, discarded>>
storeVars == <<remembered_users, remembered_users_file>>
wrapVars == <<kind, tries, rate_limited, result, calls, sleeps, rl_count,
              entry_exhausted, last_outcome, returned>>
loopHist == <<dequeued, finished, snap, message>>
timerVars == <<now, active_index>>
auxVars == <<dequeued_at_stop, now, active_index>>

\* ------------------------------------------------------ pure helpers

Range(s) == {s[k] : k \in DOMAIN s}

IsPrefix(s, t) == Len(s) <= Len(t) /\ \A k \in 1..Len(s) : s[k] = t[k]

\* Mutant of Truthy: only False is treated as falsy ("is False").
Truthy_OnlyFalseFalsy(r) == r \in {"True", "text", "None", "empty"}

\* Python truthiness of the values the wrapper can return: None, False and
\* the empty string are falsy.
Truthy(r) == r \in {"True", "text"}

\* f.read().strip().splitlines() (line 121): leading and trailing blank
\* lines are stripped before the split.
RECURSIVE StripLeading(_)
StripLeading(lines) ==
  IF lines # <<>> /\ Head(lines) = "" THEN StripLeading(Tail(lines)) ELSE lines

RECURSIVE StripTrailing(_)
StripTrailing(lines) ==
  IF lines # <<>> /\ lines[Len(lines)] = ""
  THEN StripTrailing(SubSeq(lines, 1, Len(lines) - 1))
  ELSE lines

LoadUsers(lines) == StripTrailing(StripLeading(lines))

\* f.write("\n" + username) in append mode (lines 222-223): on an empty or
\* missing file the newline leaves an empty first line.
AppendLine(lines, username) ==
  IF lines = <<>> THEN <<"", username>> ELSE Append(lines, username)

\* str.format: the template's named fields are looked up among the keyword
\* arguments only; a positional argument binds none of them.
Format(fields, kwargs) == IF fields \subseteq kwargs THEN "ok" ELSE "KeyError"

\* Named fields of the templates of Static.LLM.
user_welcome_prompt == {"username"}
user_respond_prompt == {"message", "username"}
rate_limited_response == {"message"}
livestream_behavior_prompt == {"actor"}

\* Wall-clock times (whole seconds) the model draws time.time() from.
Times == {k * character_season_length : k \in 0..MaxSeasons}

\* Mutant of current_character: the modulo by the rotation period is left out.
current_character_NoModulo(t) ==
  [type |-> "float", value |-> t \div character_season_length]

\* LLMChatBot.current_character (line 239), for time.time() = t.  The
\* arithmetic is float arithmetic: the index is a float.
current_character(t) ==
  [type |-> "float",
   value |-> (t % (character_season_length * Len(character_prompts)))
               \div character_season_length]

\* list[index]: an int index selects, any other type raises TypeError.
ListIndex(list, index) ==
  IF index.type = "int" /\ index.value \in 0..(Len(list) - 1)
  THEN list[index.value + 1]
  ELSE IF index.type = "int" THEN "IndexError" ELSE "TypeError"

\* LLMChatBot.current_system_prompt (line 244): the character's prompt, or
\* the exception raised while building it.
current_system_prompt(t) ==
  IF Format(livestream_behavior_prompt, {"actor"}) # "ok"
  THEN "KeyError"
  ELSE ListIndex(character_prompts, current_character(t))

IsException(x) == x \in {"KeyError", "TypeError", "IndexError", "APIError"}

\* Outcomes of one call of _is_clean (lines 204-208): the moderation
\* endpoint answers flagged or not, raises the rate-limit signal, or fails
\* otherwise.  The value returned is "not flagged".
IsCleanOutcomes == {"True", "False", "RateLimitError", "APIError"}

\* Outcomes of one call of _get_llm_message at time t (lines 250-269).  The
\* system prompt is built before the request is made: if that raises, the
\* exception is the outcome and no request is made.  Otherwise the
\* completion endpoint answers with text, with empty content, with a response
\* whose content cannot be read (None is returned, line 267), or raises.
GetLLMOutcomes(t) ==
  IF IsException(current_system_prompt(t))
  THEN {current_system_prompt(t)}
  ELSE {"text", "empty", "None", "RateLimitError", "APIError"}

\* Whether the outcome came from the remote service (a request was made).
IsRemoteOutcome(o) == o \notin {"KeyError", "TypeError", "IndexError"}

IsGeneration(k) == k \in {"greet", "reply", "direct_get_llm"}

CallOutcomes(k, t) == IF IsGeneration(k) THEN GetLLMOutcomes(t) ELSE IsCleanOutcomes


\* ------------------------------------------------------------ state

\* Contents remembered_users.txt can have when the bot starts: missing or
\* empty, written by an earlier session that started without the file
\* (first line empty), or holding one name.
InitialFiles == {<<>>, <<"", "alice">>, <<"alice">>}

NoSnap == [users |-> <<>>, file |-> <<>>, nsent |-> 0]

\* LLMChatBot.__init__ (lines 108-133), with the processor thread started
\* at the top of its loop.
InitAt(start) ==
  /\ keep_running = TRUE
  /\ permanent_rate_limit = FALSE
  /\ messages_to_process = <<>>
  /\ remembered_users_file \in InitialFiles
  /\ remembered_users = LoadUsers(remembered_users_file)
  /\ pc = start
  /\ message = NoMessage
  /\ kind = "none"
  /\ tries = 0
  /\ rate_limited = FALSE
  /\ result = "unset"
  /\ exc = "none"
  /\ exit = "none"
  /\ sent = <<>>
  /\ accepted = <<>>
  /\ discarded = <<>>
  /\ dequeued = <<>>
  /\ finished = <<>>
  /\ snap = NoSnap
  /\ calls = 0
  /\ sleeps = 0
  /\ rl_count = 0
  /\ entry_exhausted = FALSE
  /\ last_outcome = "none"
  /\ returned = {}
  /\ invocations = 0
  /\ dequeued_at_stop = 0
  /\ now = 0
  /\ active_index = 0

Init == InitAt("loop")

\* ------------------------------------------------- callback thread

\* Mutant of ActionAccepts: the callback enqueues whatever the state.
ActionAccepts_Always == TRUE

\* The test of line 138: the callback enqueues unless permanently limited.
ActionAccepts == ~permanent_rate_limit

\* Mutant of PutCanProceed: the queue holds one item (Queue(maxsize = 1)),
\* and put waits while it is full.
PutCanProceed_Bounded == Len(messages_to_process) < 1

\* queue.Queue() (line 130) is unbounded: put (line 141) never waits for
\* room, and the queue's lock is held only inside put and get_nowait.
PutCanProceed == TRUE

\* A further chat message can arrive (the bound of the model).
ArrivalsLeft == Len(accepted) + Len(discarded) < MaxArrivals

\* Mutant of Action: the callback itself notes the sender as seen.
Action_NotesUser ==
  /\ ArrivalsLeft
  /\ ActionAccepts => PutCanProceed
  /\ \E u \in Users, at \in BOOLEAN :
       LET m == [id |-> Len(accepted) + Len(discarded) + 1,
                 username |-> u, mention |-> at]
       IN IF ActionAccepts
          THEN /\ messages_to_process' = Append(messages_to_process, m)
               /\ accepted' = Append(accepted, m)
               /\ remembered_users' =
                    IF u \in Range(remembered_users)
                    THEN remembered_users
                    ELSE Append(remembered_users, u)
               /\ UNCHANGED <<discarded, remembered_users_file>>
          ELSE /\ discarded' = Append(discarded, m)
               /\ UNCHANGED <<messages_to_process, accepted, storeVars>>
  /\ UNCHANGED <<keep_running, permanent_rate_limit, pc, exc, exit,
                 sent, wrapVars, loopHist, invocations, auxVars>>

\* Mutant of Action: a message arriving after exhaustion clears the flag
\* and is enqueued (automatic recovery).
Action_Recovers ==
  /\ ArrivalsLeft
  /\ PutCanProceed
  /\ \E u \in Users, at \in BOOLEAN :
       LET m == [id |-> Len(accepted) + Len(discarded) + 1,
                 username |-> u, mention |-> at]
       IN /\ messages_to_process' = Append(messages_to_process, m)
          /\ accepted' = Append(accepted, m)
          /\ permanent_rate_limit' = FALSE
          /\ UNCHANGED discarded
  /\ UNCHANGED <<keep_running, storeVars, pc, exc, exit,
                 sent, wrapVars, loopHist, invocations, auxVars>>

\* LLMChatBot.action (lines 135-141), called by the chat library for each
\* incoming message.
Action ==
  /\ ArrivalsLeft
  /\ ActionAccepts => PutCanProceed
  /\ \E u \in Users, at \in BOOLEAN :
       LET m == [id |-> Len(accepted) + Len(discarded) + 1,
                 username |-> u, mention |-> at]
       IN IF ActionAccepts
          THEN /\ messages_to_process' = Append(messages_to_process, m)
               /\ accepted' = Append(accepted, m)
               /\ UNCHANGED discarded
          ELSE /\ discarded' = Append(discarded, m)
               /\ UNCHANGED <<messages_to_process, accepted>>
  /\ UNCHANGED <<keep_running, permanent_rate_limit, storeVars, pc, exc, exit,
                 sent, wrapVars, loopHist, invocations, auxVars>>

\* The killswitch command (registered at line 295) or the chat library
\* clears actor.keep_running.
Killswitch ==
  /\ keep_running
  /\ keep_running' = FALSE
  /\ dequeued_at_stop' = Len(dequeued)
  /\ UNCHANGED <<permanent_rate_limit, queueVars, storeVars, pc, exc, exit,
                 sent, wrapVars, loopHist, invocations, timerVars>>

\* ------------------------------------------------ processor thread

\* The processing of the current message has ended.
Finish == finished' = Append(finished, message)

\* Mutant of LoopCondition: the loop does not look at keep_running.
LoopCondition_IgnoresFlag == ~permanent_rate_limit

\* The while condition of line 146.
LoopCondition == keep_running /\ ~permanent_rate_limit

\* Line 146: evaluate the while condition; when false, fall out of the
\* loop to line 172 and end the thread.
LoopTest ==
  /\ pc = "loop"
  /\ IF LoopCondition
     THEN pc' = "get" /\ UNCHANGED exit
     ELSE pc' = "done" /\ exit' = "loop_end"
  /\ UNCHANGED <<keep_running, permanent_rate_limit, queueVars, storeVars,
                 exc, sent, wrapVars, loopHist, invocations, auxVars>>

\* Mutant of get_nowait: the newest item is taken (a LIFO queue).
get_nowait_Lifo(q) == <<q[Len(q)], SubSeq(q, 1, Len(q) - 1)>>

\* queue.Queue.get_nowait on a non-empty queue: the oldest item and the rest.
get_nowait(q) == <<Head(q), Tail(q)>>

\* Lines 149-156: take the next message, or sleep 0.1 s and go round again
\* when the queue is empty; with a message, call is_clean (lines 200-202).
GetNowait ==
  /\ pc = "get"
  /\ IF messages_to_process = <<>>
     THEN /\ pc' = "loop"
          /\ UNCHANGED <<messages_to_process, loopHist, kind>>
     ELSE LET g == get_nowait(messages_to_process)
          IN /\ message' = g[1]
             /\ messages_to_process' = g[2]
             /\ dequeued' = Append(dequeued, g[1])
             /\ snap' = [users |-> remembered_users,
                         file |-> remembered_users_file,
                         nsent |-> Len(sent)]
             /\ kind' = "is_clean"
             /\ pc' = "w_enter"
             /\ UNCHANGED finished
  /\ UNCHANGED <<keep_running, permanent_rate_limit, accepted, discarded,
                 storeVars, exc, exit, sent, tries, rate_limited, result,
                 calls, sleeps, rl_count, entry_exhausted, last_outcome,
                 returned, invocations, auxVars>>

\* ------------------------------------------------ _run_rate_limited

LogReturn(r) == returned' = returned \cup {[rl |-> rl_count, result |-> r]}

\* Mutant of AlreadyLimited: the wrapper never short-circuits.
AlreadyLimited_Never == FALSE

\* The test of line 177.
AlreadyLimited == permanent_rate_limit

\* Mutant of TriesLeft: the loop runs one iteration short.
TriesLeft_OneShort(n) == n < rate_limit_max_tries - 1

\* Whether range(rate_limit_max_tries) (line 184) has an iteration left
\* after n iterations.
TriesLeft(n) == n < rate_limit_max_tries

\* Lines 174-181: return at once when already permanently limited,
\* otherwise start the for loop.
RunRateLimited ==
  /\ pc = "w_enter"
  /\ entry_exhausted' = permanent_rate_limit
  /\ calls' = 0
  /\ sleeps' = 0
  /\ rl_count' = 0
  /\ tries' = 0
  /\ rate_limited' = FALSE
  /\ last_outcome' = "none"
  /\ IF AlreadyLimited
     THEN /\ result' = "None"
          /\ pc' = "w_ret"
          /\ returned' = returned \cup {[rl |-> 0, result |-> "None"]}
     ELSE /\ result' = "unset"
          /\ pc' = "w_for"
          /\ UNCHANGED returned
  /\ UNCHANGED <<keep_running, permanent_rate_limit, queueVars, storeVars,
                 kind, exc, exit, sent, loopHist, invocations, auxVars>>

\* Mutant of ForIteration: every iteration sleeps first.
ForIteration_AlwaysSleeps ==
  /\ pc = "w_for"
  /\ TriesLeft(tries)
  /\ tries' = tries + 1
  /\ pc' = "w_sleep"
  /\ UNCHANGED <<keep_running, permanent_rate_limit, queueVars, storeVars,
                 kind, rate_limited, result, exc, exit, sent, loopHist, calls,
                 sleeps, rl_count, entry_exhausted, last_outcome, returned,
                 invocations, auxVars>>

\* Lines 184-187: the next iteration of the for loop; it sleeps first when
\* the previous attempt was rate limited.
ForIteration ==
  /\ pc = "w_for"
  /\ TriesLeft(tries)
  /\ tries' = tries + 1
  /\ pc' = IF rate_limited THEN "w_sleep" ELSE "w_call"
  /\ UNCHANGED <<keep_running, permanent_rate_limit, queueVars, storeVars,
                 kind, rate_limited, result, exc, exit, sent, loopHist, calls,
                 sleeps, rl_count, entry_exhausted, last_outcome, returned,
                 invocations, auxVars>>

\* Lines 197-198: the for loop ran out of tries.
OutOfTries ==
  /\ pc = "w_for"
  /\ ~TriesLeft(tries)
  /\ permanent_rate_limit' = TRUE
  /\ result' = "None"
  /\ pc' = "w_ret"
  /\ LogReturn("None")
  /\ UNCHANGED <<keep_running, queueVars, storeVars, kind, tries,
                 rate_limited, exc, exit, sent, loopHist, calls, sleeps,
                 rl_count, entry_exhausted, last_outcome, invocations, auxVars>>

\* Line 187: time.sleep(rate_limit_delay).
Sleep ==
  /\ pc = "w_sleep"
  /\ sleeps' = sleeps + 1
  /\ pc' = "w_call"
  /\ UNCHANGED <<keep_running, permanent_rate_limit, queueVars, storeVars,
                 kind, tries, rate_limited, result, exc, exit, sent, loopHist,
                 calls, rl_count, entry_exhausted, last_outcome, returned,
                 invocations, auxVars>>

\* Lines 190-195: one call().  A value is returned, the rate-limit signal is
\* caught, every other exception leaves the wrapper.
Call ==
  /\ pc = "w_call"
  /\ \E t \in Times : \E o \in CallOutcomes(kind, t) :
       /\ last_outcome' = o
       /\ calls' = calls + (IF IsRemoteOutcome(o) THEN 1 ELSE 0)
       /\ IF o = "RateLimitError"
          THEN /\ rate_limited' = TRUE
               /\ rl_count' = rl_count + 1
               /\ pc' = "w_for"
               /\ UNCHANGED <<result, exc, returned>>
          ELSE IF IsException(o)
          THEN /\ exc' = o
               /\ pc' = "raise"
               /\ LogReturn("raised")
               /\ UNCHANGED <<rate_limited, rl_count, result>>
          ELSE /\ result' = o
               /\ pc' = "w_ret"
               /\ LogReturn(o)
               /\ UNCHANGED <<rate_limited, rl_count, exc>>
  /\ UNCHANGED <<keep_running, permanent_rate_limit, queueVars, storeVars,
                 kind, tries, exit, sent, loopHist, sleeps, entry_exhausted,
                 invocations, auxVars>>


\* -------------------------------------- message_processing_loop, cont.

LoopKinds == {"is_clean", "greet", "reply"}
DirectKinds == {"direct_is_clean", "direct_get_llm"}

\* actor.send_message(text): what was sent, and for which message.
Send(what) == sent' = Append(sent, [kind |-> what, to |-> message.id])

\* Lines 156-157: "if not self.is_clean(...): return".  The return leaves
\* message_processing_loop: the thread ends.
AfterIsClean ==
  IF ~Truthy(result)
  THEN /\ pc' = "done"
       /\ exit' = "return_unclean"
       /\ Finish
       /\ UNCHANGED <<sent, exc, permanent_rate_limit>>
  ELSE /\ pc' = "remember"
       /\ UNCHANGED <<exit, finished, sent, exc, permanent_rate_limit>>

\* Lines 231-234 and 162: greet_user sends the welcome when one was
\* generated; then "return" leaves message_processing_loop.
AfterGreet ==
  /\ IF Truthy(result) THEN Send("welcome") ELSE UNCHANGED sent
  /\ pc' = "done"
  /\ exit' = "return_greeted"
  /\ Finish
  /\ UNCHANGED <<exc, permanent_rate_limit>>

\* Lines 167-170: send the reply; without one, when permanently limited,
\* format and send the fixed notice; then go round the loop.
AfterReply ==
  IF Truthy(result)
  THEN /\ Send("reply")
       /\ pc' = "loop"
       /\ Finish
       /\ UNCHANGED <<exit, exc, permanent_rate_limit>>
  ELSE IF permanent_rate_limit
  THEN IF Format(rate_limited_response, {}) = "ok"
       THEN /\ Send("notice")
            /\ pc' = "loop"
            /\ Finish
            /\ UNCHANGED <<exit, exc, permanent_rate_limit>>
       ELSE /\ exc' = "KeyError"
            /\ pc' = "raise"
            /\ UNCHANGED <<exit, sent, finished, permanent_rate_limit>>
  ELSE /\ pc' = "loop"
       /\ Finish
       /\ UNCHANGED <<exit, sent, exc, permanent_rate_limit>>

\* The wrapper returns to its caller in message_processing_loop.
WrapperReturn ==
  /\ pc = "w_ret"
  /\ kind \in LoopKinds
  /\ CASE kind = "is_clean" -> AfterIsClean
       [] kind = "greet" -> AfterGreet
       [] kind = "reply" -> AfterReply
  /\ UNCHANGED <<keep_running, queueVars, storeVars, wrapVars, dequeued,
                 snap, message, invocations, auxVars>>

\* Mutant of NoteUser: the new name is not appended.
NoteUser_Forgets(list, username) == list

\* Line 221: self.remembered_users.append(username).
NoteUser(list, username) == Append(list, username)

\* Mutant of Remembers: only the newest entry is compared.
Remembers_LastOnly(list, username) ==
  list # <<>> /\ list[Len(list)] = username

\* Mutant of Remembers: the membership test is inverted.
Remembers_Inverted(list, username) == username \notin Range(list)

\* The membership test of line 216.
Remembers(list, username) == username \in Range(list)

\* Lines 160 and 214-224: remember_user.  A remembered user goes on to the
\* mention test; a new one is appended to the list and the file and greeted.
RememberUser ==
  /\ pc = "remember"
  /\ IF Remembers(remembered_users, message.username)
     THEN /\ pc' = "mention"
          /\ UNCHANGED storeVars
     ELSE /\ remembered_users' = NoteUser(remembered_users, message.username)
          /\ remembered_users_file' =
               AppendLine(remembered_users_file, message.username)
          /\ pc' = "greet"
  /\ UNCHANGED <<keep_running, permanent_rate_limit, queueVars, exc, exit,
                 sent, wrapVars, loopHist, invocations, auxVars>>

\* Lines 161 and 226-230: greet_user formats the welcome prompt (keyword
\* argument username) and calls get_llm_message.
GreetUser ==
  /\ pc = "greet"
  /\ IF Format(user_welcome_prompt, {"username"}) = "ok"
     THEN kind' = "greet" /\ pc' = "w_enter" /\ UNCHANGED exc
     ELSE exc' = "KeyError" /\ pc' = "raise" /\ UNCHANGED kind
  /\ UNCHANGED <<keep_running, permanent_rate_limit, queueVars, storeVars,
                 exit, sent, tries, rate_limited, result, calls, sleeps,
                 rl_count, entry_exhausted, last_outcome, returned, loopHist,
                 invocations, auxVars>>

\* Line 165: message.text.startswith("@" + actor.username); without a
\* mention the iteration ends and the loop goes round.
MentionTest ==
  /\ pc = "mention"
  /\ IF message.mention
     THEN pc' = "reply" /\ UNCHANGED finished
     ELSE pc' = "loop" /\ Finish
  /\ UNCHANGED <<keep_running, permanent_rate_limit, queueVars, storeVars,
                 exc, exit, sent, wrapVars, dequeued, snap, message,
                 invocations, auxVars>>

\* Line 166: user_respond_prompt.format(message) (the message passed
\* positionally), then get_llm_message.
ReplyPrompt ==
  /\ pc = "reply"
  /\ IF Format(user_respond_prompt, {}) = "ok"
     THEN kind' = "reply" /\ pc' = "w_enter" /\ UNCHANGED exc
     ELSE exc' = "KeyError" /\ pc' = "raise" /\ UNCHANGED kind
  /\ UNCHANGED <<keep_running, permanent_rate_limit, queueVars, storeVars,
                 exit, sent, tries, rate_limited, result, calls, sleeps,
                 rl_count, entry_exhausted, last_outcome, returned, loopHist,
                 invocations, auxVars>>

\* An exception no frame catches reaches the top of the processor thread:
\* threading reports it and the thread ends (lines 132-133 start the thread
\* with nothing around the loop).
UncaughtException ==
  /\ pc = "raise"
  /\ kind \in LoopKinds
  /\ pc' = "done"
  /\ exit' = "exception"
  /\ Finish
  /\ UNCHANGED <<keep_running, permanent_rate_limit, queueVars, storeVars,
                 exc, sent, wrapVars, dequeued, snap, message, invocations, auxVars>>

Processor ==
  \/ LoopTest
  \/ GetNowait
  \/ RunRateLimited
  \/ ForIteration
  \/ OutOfTries
  \/ Sleep
  \/ Call
  \/ WrapperReturn
  \/ RememberUser
  \/ GreetUser
  \/ MentionTest
  \/ ReplyPrompt
  \/ UncaughtException

Next == Action \/ Killswitch \/ Processor

Spec == Init /\ [][Next]_vars

\* The processor thread is scheduled and remote calls return.
FairSpec == Init /\ [][Next]_vars /\ WF_vars(Processor)

\* --------------------------- is_clean / get_llm_message called directly

\* The wrapper's two entry points, called one after the other on one
\* LLMChatBot by a caller of its own (no processor loop around them).
InitWrapper == InitAt("idle")

\* is_clean(expression) (lines 200-202) or get_llm_message(prompt)
\* (lines 246-248).
Invoke ==
  /\ pc = "idle"
  /\ invocations < MaxInvocations
  /\ invocations' = invocations + 1
  /\ \E k \in DirectKinds : kind' = k
  /\ pc' = "w_enter"
  /\ exc' = "none"
  /\ UNCHANGED <<keep_running, permanent_rate_limit, queueVars, storeVars,
                 exit, sent, tries, rate_limited, result, calls, sleeps,
                 rl_count, entry_exhausted, last_outcome, returned, loopHist,
                 auxVars>>

\* The direct caller receives the wrapper's value or its exception.
DirectReturn ==
  /\ pc \in {"w_ret", "raise"}
  /\ kind \in DirectKinds
  /\ pc' = "idle"
  /\ UNCHANGED <<keep_running, permanent_rate_limit, queueVars, storeVars,
                 exc, exit, sent, wrapVars, loopHist, invocations, auxVars>>

NextWrapper ==
  \/ Invoke
  \/ RunRateLimited
  \/ ForIteration
  \/ OutOfTries
  \/ Sleep
  \/ Call
  \/ DirectReturn

SpecWrapper == InitWrapper /\ [][NextWrapper]_vars


\* ------------------------------------------- remember_user called directly

\* remember_user called on one LLMChatBot with one username after another.
InitStore == InitAt("store_idle")

\* LLMChatBot.remember_user (lines 214-224), call and return in one step:
\* message holds the argument, snap the store before the call, result the
\* value returned, finished the calls made so far.
RememberDirect ==
  /\ pc = "store_idle"
  /\ invocations < MaxStoreCalls
  /\ invocations' = invocations + 1
  /\ \E u \in Users :
       LET m == [id |-> invocations + 1, username |-> u, mention |-> FALSE]
       IN /\ message' = m
          /\ finished' = Append(finished, m)
          /\ snap' = [users |-> remembered_users,
                      file |-> remembered_users_file,
                      nsent |-> Len(sent)]
          /\ IF Remembers(remembered_users, u)
             THEN /\ result' = "True"
                  /\ UNCHANGED storeVars
             ELSE /\ result' = "False"
                  /\ remembered_users' = NoteUser(remembered_users, u)
                  /\ remembered_users_file' =
                       AppendLine(remembered_users_file, u)
  /\ UNCHANGED <<keep_running, permanent_rate_limit, queueVars, pc, kind,
                 tries, rate_limited, exc, exit, sent, dequeued, calls,
                 sleeps, rl_count, entry_exhausted, last_outcome, returned,
                 auxVars>>

NextStore == RememberDirect

SpecStore == InitStore /\ [][NextStore]_vars

\* ----------------------------------------- current_character read directly

\* The property current_character read second after second.
InitTimer == InitAt("timer")

\* A second passes and current_character (lines 236-239) is read.
Tick ==
  /\ pc = "timer"
  /\ now < MaxTime
  /\ now' = now + 1
  /\ active_index' = current_character(now').value
  /\ UNCHANGED <<keep_running, permanent_rate_limit, queueVars, storeVars,
                 pc, exc, exit, sent, wrapVars, loopHist, invocations,
                 dequeued_at_stop>>

NextTimer == Tick

SpecTimer == InitTimer /\ [][NextTimer]_vars

\* ============================================================ claims

WrapperBusy == pc \in {"w_for", "w_sleep", "w_call"}

\* The message now in "message" is being processed (dequeued, not finished).
InProcess == Len(dequeued) = Len(finished) + 1

\* The username of the current message was in the store when it was dequeued.
SenderWasSeen == message.username \in Range(snap.users)

StoreUntouched ==
  /\ remembered_users = snap.users
  /\ remembered_users_file = snap.file

\* ---------------------------------------------------------------- C1
\* C1: an invocation of _run_rate_limited started while not exhausted that
\* returns after rate_limit_max_tries rate-limit signals returns None and
\* has set permanent_rate_limit; one that returns after exactly
\* rate_limit_max_tries - 1 signals returns the value of the call that then
\* succeeded and leaves permanent_rate_limit false.
C1_WrapperOutcome ==
  (pc = "w_ret" /\ ~entry_exhausted) =>
    /\ rl_count = rate_limit_max_tries =>
         (result = "None" /\ permanent_rate_limit)
    /\ rl_count = rate_limit_max_tries - 1 =>
         /\ result = last_outcome
         /\ result \in {"True", "False", "text", "empty", "None"}
         /\ last_outcome # "RateLimitError"
         /\ ~permanent_rate_limit

\* Both cases in one session: exhaustion now, and an earlier invocation that
\* succeeded on its last try.
C1_Witness ==
  /\ pc = "w_ret"
  /\ ~entry_exhausted
  /\ rl_count = rate_limit_max_tries
  /\ result = "None"
  /\ permanent_rate_limit
  /\ [rl |-> rate_limit_max_tries - 1, result |-> "True"] \in returned

\* ---------------------------------------------------------------- C2
\* C2: once permanent_rate_limit is true, an invocation of the wrapper
\* (is_clean or get_llm_message) returns None without calling the remote
\* operation: the wrapper is never in its retry loop while the flag is set,
\* and a return from an invocation entered with the flag set carries None
\* after zero calls, zero tries and zero sleeps.
C2_ShortCircuit ==
  permanent_rate_limit =>
    /\ ~WrapperBusy
    /\ pc # "raise"
    /\ (pc = "w_ret" /\ entry_exhausted) =>
         (result = "None" /\ calls = 0 /\ tries = 0 /\ sleeps = 0)

\* An invocation of get_llm_message entered after exhaustion has returned.
C2_Witness ==
  /\ permanent_rate_limit
  /\ pc = "w_ret"
  /\ entry_exhausted
  /\ kind = "direct_get_llm"
  /\ result = "None"

\* ---------------------------------------------------------------- C3
\* C3 (as claimed): when the remote operation fails with anything other than
\* the rate-limit signal, no exception leaves the wrapper and the processor
\* thread is not ended by one.
C3_NoExceptionEscapes ==
  last_outcome = "APIError" => (exc = "none" /\ exit # "exception")

\* ---------------------------------------------------------------- C4
\* C4 (as claimed): the loop ends (other than by an exception) only when
\* keep_running was cleared or permanent_rate_limit is true.
C4_StoppedOnlyWhenTold ==
  (pc = "done" /\ exit # "exception") =>
    (~keep_running \/ permanent_rate_limit)

\* ---------------------------------------------------------------- C5
\* C5 (as claimed), in the form a finite run refutes: while keep_running is
\* true and the wrapper is not exhausted, the processor never stops (other
\* than by an exception) leaving an accepted message unprocessed; the
\* messages processed are the messages accepted, in order.
C5_AllProcessedInOrder ==
  (pc = "done" /\ exit # "exception" /\ keep_running /\ ~permanent_rate_limit)
    => finished = accepted

\* ---------------------------------------------------------------- C6
\* C6: the messages dequeued are a prefix of the messages accepted, the
\* queue holds exactly the accepted messages not yet dequeued, in order, the
\* messages finished are a prefix of those dequeued, and at most one message
\* is dequeued and unfinished (being evaluated) at any time.
C6_FifoOneAtATime ==
  /\ IsPrefix(dequeued, accepted)
  /\ messages_to_process =
       SubSeq(accepted, Len(dequeued) + 1, Len(accepted))
  /\ IsPrefix(finished, dequeued)
  /\ Len(dequeued) - Len(finished) \in {0, 1}
  /\ InProcess => message = dequeued[Len(dequeued)]
  /\ \A j, k \in DOMAIN dequeued : dequeued[j] = dequeued[k] => j = k

\* The second message is in a retry sleep while the third waits in the queue.
C6_Witness ==
  /\ Len(dequeued) = 2
  /\ Len(finished) = 1
  /\ Len(messages_to_process) = 1
  /\ pc = "w_sleep"

\* ---------------------------------------------------------------- C7
\* C7: once the moderation check of the current message has returned False
\* (flagged) or None (no result), the list and the file of remembered users
\* are as they were when the message was dequeued and nothing has been sent
\* since, whoever sent the message and whether or not it mentions the bot.
C7_UncleanNoEffect ==
  (kind = "is_clean" /\ result \in {"False", "None"} /\ message # NoMessage
     /\ ~WrapperBusy /\ pc # "w_enter")
    => (StoreUntouched /\ Len(sent) = snap.nsent)

\* A flagged mention from a new user has been dropped.
C7_Witness ==
  /\ exit = "return_unclean"
  /\ result = "False"
  /\ message.mention
  /\ ~SenderWasSeen
  /\ StoreUntouched

\* ---------------------------------------------------------------- C8
\* C8: while a message from a username that was not in the store when it was
\* dequeued is the current message, the loop is never at the mention test
\* or the reply, no reply generation runs, and nothing but a welcome has
\* been sent for it.
C8_NewUserNoReply ==
  (message # NoMessage /\ ~SenderWasSeen) =>
    /\ pc \notin {"mention", "reply"}
    /\ kind # "reply"
    /\ \A k \in DOMAIN sent :
         sent[k].to = message.id => sent[k].kind = "welcome"

\* A clean mention from a new user went down the greeting path and its
\* processing has ended.
C8_Witness ==
  /\ message.mention
  /\ ~SenderWasSeen
  /\ Remembers(remembered_users, message.username)
  /\ kind = "greet"
  /\ finished # <<>>
  /\ finished[Len(finished)] = message

\* ---------------------------------------------------------------- C9
\* The current message passed moderation.
PassedModeration ==
  \/ kind = "is_clean" /\ result = "True" /\ last_outcome = "True"
  \/ kind \in {"greet", "reply"}

SentSinceDequeue == SubSeq(sent, snap.nsent + 1, Len(sent))

\* C9 (as claimed): when the processing of a clean message from an
\* already-seen user has ended, then, if it mentions the bot, a reply
\* generation was made for it and the generated text was sent, or the fixed
\* notice when the wrapper became exhausted, or nothing when generation
\* failed otherwise; if it does not mention the bot, no generation was made
\* and nothing was sent.
C9_MentionReply ==
  (/\ finished # <<>>
   /\ finished[Len(finished)] = message
   /\ SenderWasSeen
   /\ PassedModeration)
    => IF message.mention
       THEN /\ kind = "reply"
            /\ exit # "exception"
            /\ SentSinceDequeue =
                 IF Truthy(result)
                 THEN <<[kind |-> "reply", to |-> message.id]>>
                 ELSE IF permanent_rate_limit
                 THEN <<[kind |-> "notice", to |-> message.id]>>
                 ELSE <<>>
       ELSE kind = "is_clean" /\ SentSinceDequeue = <<>>

\* --------------------------------------------------------------- C10
\* The ids of the messages that arrived after exhaustion (the callback
\* dropped them).
LateIds == {discarded[k].id : k \in DOMAIN discarded}

NoticesFor(id) ==
  Cardinality({k \in DOMAIN sent : sent[k].to = id /\ sent[k].kind = "notice"})

\* C10 (as claimed), in the form a finite run refutes: when the processor
\* has stopped, every mention that arrived after exhaustion has been
\* answered with exactly one fixed notice.
C10_LateMentionsAnswered ==
  pc = "done" =>
    \A k \in DOMAIN discarded :
      discarded[k].mention => NoticesFor(discarded[k].id) = 1

\* C10 (amended): once permanent_rate_limit is true it stays true, and no
\* message that arrives afterwards is enqueued, dequeued or answered: the
\* callback drops it.
C10_LateMessagesDropped ==
  [][permanent_rate_limit =>
       /\ permanent_rate_limit'
       /\ accepted' = accepted
       /\ messages_to_process' = messages_to_process
       /\ dequeued' = dequeued
       /\ \A k \in DOMAIN sent' : sent'[k].to \notin LateIds']_vars

\* A mention arrived after exhaustion and the processor has stopped.
C10_Witness ==
  /\ permanent_rate_limit
  /\ pc = "done"
  /\ \E k \in DOMAIN discarded : discarded[k].mention
  /\ sent = <<>>


\* --------------------------------------------------------------- C11
\* The current message has gone down the greeting path and its processing
\* has ended.
GreetingEnded ==
  /\ kind = "greet"
  /\ finished # <<>>
  /\ finished[Len(finished)] = message

WelcomesFor(id) ==
  Cardinality({k \in DOMAIN sent : sent[k].to = id /\ sent[k].kind = "welcome"})

\* C11 (as claimed): when the processing of a clean message from a new user
\* has ended, the username is in the store, no exception was raised, and a
\* welcome was sent exactly when the generation call returned a result.
C11_GreetBestEffort ==
  GreetingEnded =>
    /\ message.username \in Range(remembered_users)
    /\ exit # "exception"
    /\ exc = "none"
    /\ WelcomesFor(message.id) = (IF Truthy(result) THEN 1 ELSE 0)

\* --------------------------------------------------------------- C12
\* The usernames passed to remember_user before the latest call.
EarlierCalls == {finished[k].username : k \in 1..(Len(finished) - 1)}

\* C12: after each call remember_user(u): it returned False exactly when u
\* was not in the list before the call; u is in the list now; every
\* username ever passed is still in the list; and a username passed in an
\* earlier call gets True.
C12_ContainsAfterAdd ==
  invocations > 0 =>
    /\ (result = "False") <=> (message.username \notin Range(snap.users))
    /\ result \in {"True", "False"}
    /\ message.username \in Range(remembered_users)
    /\ \A k \in DOMAIN finished :
         finished[k].username \in Range(remembered_users)
    /\ message.username \in EarlierCalls => result = "True"
    /\ Range(snap.users) \subseteq Range(remembered_users)

\* bob was new on the first call, alice was added in between, and the third
\* call, for bob again, returned True.
C12_Witness ==
  /\ Len(finished) = 3
  /\ finished[1].username = "bob"
  /\ finished[2].username = "alice"
  /\ message.username = "bob"
  /\ snap.users = <<"bob", "alice">>
  /\ result = "True"

\* --------------------------------------------------------------- C13
\* C13: a call remember_user(u) with u already in the list returns True and
\* leaves the membership of every username, the list and the file as they
\* were (no duplicate is appended).
C13_ReAddChangesNothing ==
  [][(invocations' = invocations + 1
        /\ message'.username \in Range(remembered_users))
       => /\ result' = "True"
          /\ \A v \in Users :
               (v \in Range(remembered_users')) <=> (v \in Range(remembered_users))
          /\ remembered_users' = remembered_users
          /\ remembered_users_file' = remembered_users_file]_vars

\* alice, present but not the newest entry, has just been passed again.
C13_Witness ==
  /\ Len(finished) >= 2
  /\ message.username = "alice"
  /\ result = "True"
  /\ snap.users = <<"alice", "bob">>
  /\ remembered_users = <<"alice", "bob">>


\* --------------------------------------------------------------- C14
\* C14: whatever the processor thread is doing (a remote call, a retry
\* sleep, anything else), the callback can take its step: with a message
\* arriving, Action is enabled in every reachable state.
C14_CallbackNeverBlocked == ArrivalsLeft => ENABLED Action

\* The processor is in the sleep before its last retry, a message waits in
\* the queue, and the callback can deliver another.
C14_Witness ==
  /\ pc = "w_sleep"
  /\ tries = rate_limit_max_tries
  /\ Len(messages_to_process) = 1
  /\ ArrivalsLeft
  /\ ENABLED Action

\* --------------------------------------------------------------- C15
\* A step of the callback: a message arrived.
Arrival ==
  Len(accepted') + Len(discarded') # Len(accepted) + Len(discarded)

\* C15 (as claimed): the callback does not read permanent_rate_limit: what
\* it does with an arriving message does not depend on the flag, so it can
\* enqueue the message in every state.
C15_CallbackIgnoresLimit ==
  ArrivalsLeft => ENABLED (Action /\ Len(accepted') = Len(accepted) + 1)

\* C15 (amended): the callback writes nothing but the queue: a step in which
\* a message arrives leaves the remembered users (list and file),
\* permanent_rate_limit and the processor's position, message and sends
\* unchanged and dequeues nothing; and a step that changes the remembered
\* users or permanent_rate_limit is a step of the processor (in
\* remember_user or at the end of the wrapper's loop) in which no message
\* arrives.  (The callback does read permanent_rate_limit, line 138.)
C15_CallbackWritesQueueOnly ==
  [][/\ Arrival =>
          /\ UNCHANGED <<storeVars, permanent_rate_limit, pc, message, sent,
                         dequeued, finished, kind, result, tries>>
          /\ \/ /\ ~permanent_rate_limit
                /\ Len(messages_to_process') = Len(messages_to_process) + 1
             \/ /\ permanent_rate_limit
                /\ messages_to_process' = messages_to_process
     /\ (remembered_users' # remembered_users
           \/ remembered_users_file' # remembered_users_file)
          => (pc = "remember" /\ ~Arrival)
     /\ permanent_rate_limit' # permanent_rate_limit
          => (pc = "w_for" /\ ~Arrival)]_vars

\* The callback has enqueued two messages and, after exhaustion, dropped
\* one, with a user in the store.
C15_Witness ==
  /\ Len(accepted) = 2
  /\ Len(discarded) = 1
  /\ permanent_rate_limit
  /\ remembered_users = <<"alice">>

\* --------------------------------------------------------------- C17
\* C17: permanent_rate_limit starts false, and no step takes it from true
\* to false.
C17_Monotone ==
  /\ ~permanent_rate_limit
  /\ [][permanent_rate_limit => permanent_rate_limit']_vars

\* The flag is still set after the killswitch and two later arrivals.
C17_Witness ==
  /\ permanent_rate_limit
  /\ ~keep_running
  /\ Len(discarded) = 2
  /\ pc = "done"


\* --------------------------------------------------------------- C16
\* C16 (as claimed): once keep_running is cleared, no further message is
\* dequeued.
C16_NoDequeueAfterStop ==
  ~keep_running => Len(dequeued) = dequeued_at_stop

\* C16 (amended): once keep_running is cleared, at most one further message
\* is dequeued (one whose loop test of line 146 had passed before the flag
\* was cleared), and, the processor thread being scheduled and the remote
\* calls returning, the thread eventually ends: a message in process, its
\* remote call and its retries are allowed to finish.
C16_StopsAfterAtMostOne ==
  /\ [](~keep_running => Len(dequeued) <= dequeued_at_stop + 1)
  /\ (~keep_running ~> pc = "done")

\* The flag was cleared between the loop test and get_nowait: one more
\* message was dequeued and processed to its end, the loop then ended by its
\* condition, and a message is left in the queue.
C16_Witness ==
  /\ ~keep_running
  /\ pc = "done"
  /\ exit = "loop_end"
  /\ Len(dequeued) = dequeued_at_stop + 1
  /\ finished = dequeued
  /\ Len(messages_to_process) = 1


\* --------------------------------------------------------------- C18
RotationPeriod == character_season_length * Len(character_prompts)

\* C18: at every whole second the index read is the value of
\* current_character, lies in 0 .. roster size - 1, names the season the
\* second falls in within its rotation period, and is the index one
\* rotation period later.
C18_PeriodicIndex ==
  /\ active_index = current_character(now).value
  /\ active_index \in 0..(Len(character_prompts) - 1)
  /\ active_index * character_season_length <= now % RotationPeriod
  /\ now % RotationPeriod < (active_index + 1) * character_season_length
  /\ current_character(now + RotationPeriod).value = active_index

\* In the second rotation period, second season.
C18_Witness ==
  /\ pc = "timer"
  /\ now = RotationPeriod + character_season_length
  /\ active_index = 1

\* --------------------------------------------------------------- C19
\* C19: in one invocation of the wrapper the remote operation is called at
\* most rate_limit_max_tries times; a sleep happens only after a rate-limit
\* signal and before the next attempt (never before the first attempt,
\* never after the last failed one), so at most rate_limit_max_tries - 1
\* times; and, the thread being scheduled and the calls returning, the
\* invocation ends (returns or raises).
C19_BoundedTriesAndSleeps ==
  /\ [](/\ calls <= tries
        /\ tries <= rate_limit_max_tries
        /\ sleeps <= rate_limit_max_tries - 1
        /\ pc = "w_sleep" =>
             /\ rate_limited
             /\ last_outcome = "RateLimitError"
             /\ tries >= 2
             /\ sleeps = tries - 2
        /\ pc = "w_call" => (sleeps = tries - 1 /\ sleeps = rl_count)
        /\ pc = "w_for" =>
             \/ tries = 0 /\ sleeps = 0 /\ rl_count = 0
             \/ tries >= 1 /\ sleeps = tries - 1 /\ rl_count = tries
        /\ (pc = "w_ret" /\ ~entry_exhausted) =>
             sleeps = (IF rl_count = rate_limit_max_tries
                       THEN rate_limit_max_tries - 1
                       ELSE rl_count))
  /\ (pc = "w_enter" ~> pc \in {"w_ret", "raise"})

\* A moderation call succeeded on its third attempt, after two sleeps.
C19_Witness ==
  /\ pc = "w_ret"
  /\ kind = "is_clean"
  /\ rl_count = 2
  /\ sleeps = 2
  /\ calls = 3
  /\ result = "True"

\* --------------------------------------------------------------- C20
Notices == {k \in DOMAIN sent : sent[k].kind = "notice"}

\* C20: at most one fixed notice is ever sent, and only for a dequeued
\* mention during whose reply generation the wrapper became exhausted; after
\* an exhaustion in a moderation check or a welcome generation no notice has
\* been sent; messages are dropped by the callback only after exhaustion
\* and every accepted message arrived before every dropped one; and once
\* permanent_rate_limit is set no message is enqueued or dequeued.
C20_NoticeAtMostOnce ==
  /\ [](/\ Cardinality(Notices) <= 1
        /\ \A k \in Notices :
             /\ permanent_rate_limit
             /\ kind = "reply"
             /\ sent[k].to = message.id
             /\ message.mention
             /\ k = Len(sent)
        /\ (permanent_rate_limit /\ kind \in {"is_clean", "greet"}) =>
             Notices = {}
        /\ discarded # <<>> => permanent_rate_limit
        /\ \A j \in DOMAIN accepted, k \in DOMAIN discarded :
             accepted[j].id < discarded[k].id)
  /\ [][permanent_rate_limit =>
          /\ accepted' = accepted
          /\ messages_to_process' = messages_to_process
          /\ dequeued' = dequeued
          /\ Len(finished') <= Len(dequeued)]_vars

\* The wrapper became exhausted in the moderation check of a mention: the
\* processor has stopped, no notice was sent, a message that was waiting is
\* still in the queue and a later one was dropped.
C20_Witness ==
  /\ permanent_rate_limit
  /\ pc = "done"
  /\ exit = "return_unclean"
  /\ kind = "is_clean"
  /\ message.mention
  /\ Len(messages_to_process) = 1
  /\ Len(discarded) = 1
  /\ sent = <<>>

====
